---- MODULE Spec2Model ----
(***************************************************************************)
(* Model of the BiCare 360 backend: the relational store of patients,      *)
(* addresses, emergency contacts, hospitals and discharge summaries, the   *)
(* serializer validation in front of it and the REST handlers of the view  *)
(* sets.  Every request handler is one action; the store's declarative     *)
(* constraints (unique, one-to-one, cascade, protect, positive integer)    *)
(* are operators used by the actions that write to the store.              *)
(***************************************************************************)
EXTENDS Integers, Sequences, FiniteSets, TLC

(* ---------------------------- bounds ---------------------------------- *)
MaxPatients == 2
MaxNationalId == 2
MaxContacts == 2
MaxAddresses == 1
MaxHospitals == 2
MaxSummaries == 2
MaxEpisodes == 1
MaxKin == 1
MaxUsers == 2
MaxDate == 1
MaxClients == 2

(* ------------------------ request encoding ---------------------------- *)
(* A request body is a function from the supplied field names to values.   *)
(* A supplied value is <<v>>; an explicit JSON null is <<>>.  dict.get on  *)
(* a field that is not supplied also yields None, i.e. <<>>.               *)
None == << >>

Some(v) == << v >>

Get(data, f) == IF f \in DOMAIN data THEN data[f] ELSE None

Restrict(r, S) == [f \in S |-> r[f]]

Bodies(Full, Fields) == { Restrict(r, S) : r \in Full, S \in SUBSET Fields }

TruthyBool(o) == o # None /\ o[1] = TRUE

TruthyStr(o) == o # None /\ o[1] # ""

TruthyDate(o) == o # None

NoId == 0

(* ------------------------------ state --------------------------------- *)
VARIABLES patients, addresses, contacts, hospitals, summaries, next_id,
          inflight, response, users

vars == << patients, addresses, contacts, hospitals, summaries, next_id,
           inflight, response, users >>

store == << patients, addresses, contacts, hospitals, summaries, next_id >>

NationalIds == 1 .. MaxNationalId

Names == {"a", "b"}

Clients == 1 .. MaxClients

Idle == << >>

(* A response: status code, the fields that carry validation errors, the   *)
(* status text of an action response (or the name of the view behind a    *)
(* body of rows) and the rows of the response body.                       *)
Ok(code) == [status |-> code, errors |-> {}, detail |-> "", data |-> << >>]

BadRequest(errs) ==
    [status |-> 400, errors |-> errs, detail |-> "", data |-> << >>]

(* An exception the handler does not catch (IntegrityError, ProtectedError). *)
ServerError == [status |-> 500, errors |-> {}, detail |-> "", data |-> << >>]

Done(text) == [status |-> 200, errors |-> {}, detail |-> text, data |-> << >>]

(* A 200 response whose body is the sequence of serialized rows.           *)
Rows(view, rows) ==
    [status |-> 200, errors |-> {}, detail |-> view, data |-> rows]

Init ==
    /\ patients = << >>
    /\ addresses = << >>
    /\ contacts = << >>
    /\ hospitals = << >>
    /\ summaries = << >>
    /\ next_id = [patient |-> 1, address |-> 1, contact |-> 1,
                  hospital |-> 1, summary |-> 1, user |-> 2]
    /\ inflight = [c \in Clients |-> Idle]
    /\ response = Ok(200)
    (* Every request is made by a stored account (request.user); the     *)
    (* account of the first operator exists before the first request.    *)
    /\ users = {1}

(* Row removal and insertion on a table (a function from pk to row).       *)
Without(table, ids) == [k \in DOMAIN table \ ids |-> table[k]]

Insert(table, id, row) == [k \in DOMAIN table \cup {id} |->
                              IF k = id THEN row ELSE table[k]]

(* --------------------------- Patient ---------------------------------- *)
NationalIdNotUnique == FALSE

NationalIdUnique == TRUE

PatientsWithNationalId(nid) ==
    { p \in DOMAIN patients : patients[p].national_id = nid }

UniqueValidatorFailsOnSelf(nid, instance) ==
    NationalIdUnique /\ PatientsWithNationalId(nid) # {}

UniqueValidatorFails(nid, instance) ==
    NationalIdUnique /\ PatientsWithNationalId(nid) \ {instance} # {}

NoUniqueConstraint(nid, instance) == FALSE

UniqueConstraintViolated(nid, instance) ==
    NationalIdUnique /\ PatientsWithNationalId(nid) \ {instance} # {}

validate_national_id(nid) == PatientsWithNationalId(nid) # {}

PatientRequired == {"national_id", "first_name", "gender"}

GENDER_CHOICES == {"M", "F", "O"}

(* A supplied gender outside the choices of the field is refused.         *)
AnyChoice(data) == {}

InvalidChoice(data) ==
    IF "gender" \in DOMAIN data /\ data["gender"][1] \notin GENDER_CHOICES
    THEN {"gender"} ELSE {}

PatientCreateErrorsNoLookup(data) == PatientRequired \ DOMAIN data

PatientCreateErrors(data) ==
    (PatientRequired \ DOMAIN data)
    \cup InvalidChoice(data)
    \cup (IF "national_id" \in DOMAIN data
             /\ (\/ UniqueValidatorFails(data["national_id"][1], NoId)
                 \/ validate_national_id(data["national_id"][1]))
          THEN {"national_id"} ELSE {})

(* enrolled_date is auto_now_add: the enrollment timestamps follow the    *)
(* order of the inserts, so the timestamp of a row is its insert rank.    *)
NewPatient(data, user) ==
    [national_id |-> data["national_id"][1],
     first_name |-> data["first_name"][1],
     gender |-> data["gender"][1],
     is_active |-> TRUE,
     enrolled_date |-> next_id.patient,
     enrolled_by |-> Some(user)]

InsertPatient(data, user) ==
    IF UniqueConstraintViolated(data["national_id"][1], NoId)
    THEN /\ response' = ServerError
         /\ UNCHANGED store
    ELSE /\ patients' = Insert(patients, next_id.patient, NewPatient(data, user))
         /\ next_id' = [next_id EXCEPT !.patient = @ + 1]
         /\ response' = Ok(201)
         /\ UNCHANGED << addresses, contacts, hospitals, summaries >>

PatientCreate(data) ==
    /\ next_id.patient <= MaxPatients
    /\ UNCHANGED << inflight, users >>
    /\ IF PatientCreateErrors(data) # {}
       THEN /\ response' = BadRequest(PatientCreateErrors(data))
            /\ UNCHANGED store
       ELSE \E user \in users : InsertPatient(data, user)

(* The same create handler with the two halves of the request as separate  *)
(* steps of a client: is_valid(), then save().                             *)
CreateValidate(c, data) ==
    /\ inflight[c] = Idle
    /\ next_id.patient <= MaxPatients
    /\ UNCHANGED << store, users >>
    /\ IF PatientCreateErrors(data) # {}
       THEN /\ response' = BadRequest(PatientCreateErrors(data))
            /\ UNCHANGED inflight
       ELSE /\ inflight' = [inflight EXCEPT ![c] = Some(data)]
            /\ UNCHANGED response

CreateInsert(c) ==
    /\ inflight[c] # Idle
    /\ next_id.patient <= MaxPatients
    /\ inflight' = [inflight EXCEPT ![c] = Idle]
    /\ UNCHANGED users
    /\ \E user \in users : InsertPatient(inflight[c][1], user)

(* --------------------------- Address ---------------------------------- *)
AddressRequired == {"village"}

AddressValidateLatitudeOnly(data) ==
    Get(data, "latitude") # None /\ Get(data, "longitude") = None

(* AddressSerializer.validate: looks only at the submitted data.           *)
AddressValidateFails(data) ==
    LET latitude == Get(data, "latitude")
        longitude == Get(data, "longitude")
    IN  \/ (latitude # None /\ longitude = None)
        \/ (latitude = None /\ longitude # None)

AddressErrors(data, partial) ==
    IF ~partial /\ AddressRequired \ DOMAIN data # {}
    THEN AddressRequired \ DOMAIN data
    ELSE IF AddressValidateFails(data) THEN {"non_field_errors"} ELSE {}

(* setattr(instance, attr, value) for every submitted attribute.           *)
SetAttrs(row, data, fields) ==
    [f \in DOMAIN row |->
        IF f \in fields /\ f \in DOMAIN data THEN data[f] ELSE row[f]]

Unwrap(row, data, fields) ==
    [f \in DOMAIN row |->
        IF f \in fields /\ f \in DOMAIN data THEN data[f][1] ELSE row[f]]

AddressOf(p) == { a \in DOMAIN addresses : addresses[a].patient = p }

BlankAddress(p) ==
    [patient |-> p, village |-> "", latitude |-> None, longitude |-> None]

UpdatedAddress(row, data) ==
    Unwrap(SetAttrs(row, data, {"latitude", "longitude"}), data, {"village"})

AddressUpdate(a, data, partial) ==
    /\ a \in DOMAIN addresses
    /\ UNCHANGED << patients, contacts, hospitals, summaries, next_id, inflight, users >>
    /\ IF AddressErrors(data, partial) # {}
       THEN /\ response' = BadRequest(AddressErrors(data, partial))
            /\ UNCHANGED addresses
       ELSE /\ addresses' = [addresses EXCEPT ![a] = UpdatedAddress(@, data)]
            /\ response' = Ok(200)

(* POST /addresses/: the serializer has no patient field, so the row is    *)
(* inserted with patient_id NULL and the store refuses it.                 *)
AddressCreate(data) ==
    /\ UNCHANGED << store, inflight, users >>
    /\ IF AddressErrors(data, FALSE) # {}
       THEN response' = BadRequest(AddressErrors(data, FALSE))
       ELSE response' = ServerError

(* ----------------------- EmergencyContact ----------------------------- *)
ContactsOf(p) == { c \in DOMAIN contacts : contacts[c].patient = p }

RECURSIVE CreateContacts(_, _, _, _)
CreateContacts(table, id, p, list) ==
    IF list = << >> THEN table
    ELSE CreateContacts(
            Insert(table, id, [patient |-> p,
                               full_name |-> Head(list).full_name,
                               is_primary |-> Head(list).is_primary]),
            id + 1, p, Tail(list))

(* ------------------ PatientDetailSerializer (PUT/PATCH) ---------------- *)
NestedAddress(data) ==
    IF "address" \in DOMAIN data /\ data["address"] # None
    THEN data["address"] ELSE None

NestedContacts(data) ==
    IF "emergency_contacts" \in DOMAIN data THEN data["emergency_contacts"]
    ELSE None

PatientDetailErrors(p, data, partial) ==
    (IF partial THEN {} ELSE PatientRequired \ DOMAIN data)
    \cup InvalidChoice(data)
    \cup (IF "national_id" \in DOMAIN data
             /\ UniqueValidatorFails(data["national_id"][1], p)
          THEN {"national_id"} ELSE {})
    \cup (IF NestedAddress(data) # None
             /\ AddressErrors(NestedAddress(data)[1], partial) # {}
          THEN {"address"} ELSE {})

(* enrolled_date is in read_only_fields: a supplied value never reaches   *)
(* validated_data.                                                        *)
UpdatedPatientWritableDate(row, data) ==
    Unwrap(row, data, {"national_id", "first_name", "gender", "is_active",
                       "enrolled_date"})

UpdatedPatient(row, data) ==
    Unwrap(row, data, {"national_id", "first_name", "gender", "is_active"})

AddressesAfterUpdateInsertOnly(p, data) ==
    IF NestedAddress(data) = None THEN addresses
    ELSE Insert(addresses, next_id.address,
                UpdatedAddress(BlankAddress(p), NestedAddress(data)[1]))

AddressesAfterUpdate(p, data) ==
    IF NestedAddress(data) = None THEN addresses
    ELSE IF AddressOf(p) # {}
         THEN [a \in DOMAIN addresses |->
                 IF a \in AddressOf(p)
                 THEN UpdatedAddress(addresses[a], NestedAddress(data)[1])
                 ELSE addresses[a]]
         ELSE Insert(addresses, next_id.address,
                     UpdatedAddress(BlankAddress(p), NestedAddress(data)[1]))

ContactsAfterUpdateAppend(p, data) ==
    IF NestedContacts(data) = None THEN contacts
    ELSE CreateContacts(contacts, next_id.contact, p, NestedContacts(data)[1])

ContactsAfterUpdate(p, data) ==
    IF NestedContacts(data) = None THEN contacts
    ELSE CreateContacts(Without(contacts, ContactsOf(p)), next_id.contact, p,
                        NestedContacts(data)[1])

NextIdAfterUpdate(p, data) ==
    [next_id EXCEPT
       !.address = IF NestedAddress(data) # None /\ AddressOf(p) = {}
                   THEN @ + 1 ELSE @,
       !.contact = IF NestedContacts(data) # None
                   THEN @ + Len(NestedContacts(data)[1]) ELSE @]

PatientUpdate(p, data, partial) ==
    /\ p \in DOMAIN patients
    /\ NextIdAfterUpdate(p, data).contact <= MaxContacts + 1
    /\ NextIdAfterUpdate(p, data).address <= MaxAddresses + 1
    /\ UNCHANGED << hospitals, summaries, inflight, users >>
    /\ LET errors == PatientDetailErrors(p, data, partial)
       IN  IF errors # {}
           THEN /\ UNCHANGED << patients, addresses, contacts, next_id >>
                /\ response' = BadRequest(errors)
           ELSE IF UniqueConstraintViolated(
                       UpdatedPatient(patients[p], data).national_id, p)
           THEN /\ response' = ServerError
                /\ UNCHANGED << patients, addresses, contacts, next_id >>
           ELSE /\ response' = Ok(200)
                /\ patients' = [patients EXCEPT ![p] = UpdatedPatient(@, data)]
                /\ addresses' = AddressesAfterUpdate(p, data)
                /\ contacts' = ContactsAfterUpdate(p, data)
                /\ next_id' = NextIdAfterUpdate(p, data)

(* ------------------- PatientViewSet extra actions ---------------------- *)
DeactivatedAndRenamed(row) == [row EXCEPT !.is_active = FALSE, !.first_name = ""]

Deactivated(row) == [row EXCEPT !.is_active = FALSE]

ActivatedToggle(row) == [row EXCEPT !.is_active = ~@]

Activated(row) == [row EXCEPT !.is_active = TRUE]

Deactivate(p) ==
    /\ p \in DOMAIN patients
    /\ patients' = [patients EXCEPT ![p] = Deactivated(@)]
    /\ response' = Done("Patient deactivated successfully")
    /\ UNCHANGED << addresses, contacts, hospitals, summaries, next_id, inflight, users >>

Activate(p) ==
    /\ p \in DOMAIN patients
    /\ patients' = [patients EXCEPT ![p] = Activated(@)]
    /\ response' = Done("Patient activated successfully")
    /\ UNCHANGED << addresses, contacts, hospitals, summaries, next_id, inflight, users >>

(* ---------------------------- Hospital -------------------------------- *)
HospitalCodes == {"CHUK", "KFH"}

HospitalErrors(data) ==
    IF \E h \in DOMAIN hospitals : hospitals[h].code = data["code"][1]
    THEN {"code"} ELSE {}

HospitalCreate(data) ==
    /\ next_id.hospital <= MaxHospitals
    /\ UNCHANGED << patients, addresses, contacts, summaries, inflight, users >>
    /\ IF HospitalErrors(data) # {}
       THEN /\ response' = BadRequest(HospitalErrors(data))
            /\ UNCHANGED << hospitals, next_id >>
       ELSE /\ hospitals' = Insert(hospitals, next_id.hospital,
                                   [code |-> data["code"][1]])
            /\ next_id' = [next_id EXCEPT !.hospital = @ + 1]
            /\ response' = Ok(201)

(* ------------------------ DischargeSummary ---------------------------- *)
Dates == 0 .. MaxDate

Timeframes == {"", "1 week"}

RiskLevels == {"low", "medium", "high", "critical"}

SummariesOfPatient(p) == { s \in DOMAIN summaries : summaries[s].patient = p }

SummariesOfHospital(h) == { s \in DOMAIN summaries : summaries[s].hospital = h }

SummaryRequired == {"patient", "hospital", "admission_date", "discharge_date"}

(* The writable fields of DischargeSummaryCreateSerializer; anything else  *)
(* in the request body is dropped.                                         *)
SummaryWritable ==
    SummaryRequired \cup {"follow_up_required", "follow_up_timeframe", "risk_level"}

DateOrderFailsOnEqual(data) ==
    /\ TruthyDate(Get(data, "discharge_date"))
    /\ TruthyDate(Get(data, "admission_date"))
    /\ data["discharge_date"][1] <= data["admission_date"][1]

DateOrderFails(data) ==
    /\ TruthyDate(Get(data, "discharge_date"))
    /\ TruthyDate(Get(data, "admission_date"))
    /\ data["discharge_date"][1] < data["admission_date"][1]

FollowUpFailsOnEmptyOnly(data) ==
    /\ TruthyBool(Get(data, "follow_up_required"))
    /\ Get(data, "follow_up_timeframe") = Some("")

FollowUpFails(data) ==
    /\ TruthyBool(Get(data, "follow_up_required"))
    /\ ~TruthyStr(Get(data, "follow_up_timeframe"))

SummaryValidate(data) ==
    IF DateOrderFails(data) THEN {"discharge_date"}
    ELSE IF FollowUpFails(data) THEN {"follow_up_timeframe"}
    ELSE {}

SummaryFieldErrors(data, partial) ==
    (IF partial THEN {} ELSE SummaryRequired \ DOMAIN data)
    \cup (IF "patient" \in DOMAIN data /\ data["patient"][1] \notin DOMAIN patients
          THEN {"patient"} ELSE {})
    \cup (IF "hospital" \in DOMAIN data /\ data["hospital"][1] \notin DOMAIN hospitals
          THEN {"hospital"} ELSE {})
    \cup (IF "risk_level" \in DOMAIN data /\ data["risk_level"][1] \notin RiskLevels
          THEN {"risk_level"} ELSE {})

SummaryErrors(data, partial) ==
    LET field_errors == SummaryFieldErrors(data, partial)
    IN  IF field_errors # {}
        THEN field_errors
        ELSE SummaryValidate(Restrict(data, DOMAIN data \cap SummaryWritable))

LengthOfStay(admission_date, discharge_date) == discharge_date - admission_date

(* DischargeSummary.save: the length of stay is assigned before the write. *)
SummarySaved(row) ==
    [row EXCEPT !.length_of_stay_days =
                    LengthOfStay(row.admission_date, row.discharge_date)]

(* length_of_stay_days is a PositiveIntegerField: the store refuses a      *)
(* negative value.                                                         *)
AnyIntegerCheck(n) == TRUE

PositiveIntegerCheck(n) == n >= 0

BlankSummary ==
    [patient |-> NoId, hospital |-> NoId, admission_date |-> 0,
     discharge_date |-> 0, length_of_stay_days |-> 0,
     follow_up_required |-> TRUE, follow_up_timeframe |-> "",
     risk_level |-> "medium", created_at |-> 0, created_by |-> NoId]

SummaryFromDataStale(row, data) == Unwrap(row, data, SummaryWritable)

SummaryFromData(row, data) == SummarySaved(Unwrap(row, data, SummaryWritable))

(* created_at is auto_now_add: the creation timestamps follow the order of *)
(* the inserts, so the timestamp of a row is modelled by its insert rank.  *)
SummaryCreate(data) ==
    /\ next_id.summary <= MaxSummaries
    /\ UNCHANGED << patients, addresses, contacts, hospitals, inflight, users >>
    /\ IF SummaryErrors(data, FALSE) # {}
       THEN /\ response' = BadRequest(SummaryErrors(data, FALSE))
            /\ UNCHANGED << summaries, next_id >>
       ELSE IF ~PositiveIntegerCheck(SummaryFromData(BlankSummary, data).length_of_stay_days)
       THEN /\ response' = ServerError
            /\ UNCHANGED << summaries, next_id >>
       ELSE /\ \E user \in users :
                 summaries' = Insert(summaries, next_id.summary,
                                   [SummaryFromData(BlankSummary, data)
                                       EXCEPT !.created_at = next_id.summary,
                                              !.created_by = user])
            /\ next_id' = [next_id EXCEPT !.summary = @ + 1]
            /\ response' = Ok(201)

SummaryUpdate(s, data, partial) ==
    /\ s \in DOMAIN summaries
    /\ UNCHANGED << patients, addresses, contacts, hospitals, next_id, inflight, users >>
    /\ LET errors == SummaryErrors(data, partial)
           saved == SummaryFromData(summaries[s], data)
       IN  IF errors # {}
           THEN /\ response' = BadRequest(errors)
                /\ UNCHANGED summaries
           ELSE IF ~PositiveIntegerCheck(saved.length_of_stay_days)
           THEN /\ response' = ServerError
                /\ UNCHANGED summaries
           ELSE /\ summaries' = [summaries EXCEPT ![s] = saved]
                /\ response' = Ok(200)

SummaryDelete(s) ==
    /\ s \in DOMAIN summaries
    /\ summaries' = Without(summaries, {s})
    /\ response' = Ok(204)
    /\ UNCHANGED << patients, addresses, contacts, hospitals, next_id, inflight, users >>

(* ----------------------------- deletes -------------------------------- *)
(* on_delete=CASCADE from Address, EmergencyContact and DischargeSummary   *)
(* to Patient.                                                             *)
CascadeAddresses(p) == Without(addresses, AddressOf(p))

CascadeContacts(p) == Without(contacts, ContactsOf(p))

KeepSummaries(p) == summaries

CascadeSummaries(p) == Without(summaries, SummariesOfPatient(p))

PatientDelete(p) ==
    /\ p \in DOMAIN patients
    /\ patients' = Without(patients, {p})
    /\ addresses' = CascadeAddresses(p)
    /\ contacts' = CascadeContacts(p)
    /\ summaries' = CascadeSummaries(p)
    /\ response' = Ok(204)
    /\ UNCHANGED << hospitals, next_id, inflight, users >>

(* on_delete=PROTECT from DischargeSummary to Hospital.                    *)
HospitalNotProtected(h) == FALSE

HospitalProtected(h) == SummariesOfHospital(h) # {}

HospitalDelete(h) ==
    /\ h \in DOMAIN hospitals
    /\ UNCHANGED << patients, addresses, contacts, summaries, next_id, inflight, users >>
    /\ IF HospitalProtected(h)
       THEN /\ response' = ServerError
            /\ UNCHANGED hospitals
       ELSE /\ hospitals' = Without(hospitals, {h})
            /\ response' = Ok(204)

(* ------------------------- request bodies ----------------------------- *)
Coordinates == {1}

Villages == {"v"}

AddressBodies ==
    Bodies([village : {Some(v) : v \in Villages},
            latitude : {None} \cup {Some(x) : x \in Coordinates},
            longitude : {None} \cup {Some(x) : x \in Coordinates}],
           {"village", "latitude", "longitude"})

Male(body) == body @@ [gender |-> Some("M")]

PatientCreateBodies ==
    { Male(body) :
        body \in Bodies([national_id : {Some(n) : n \in NationalIds},
                         first_name : {Some(x) : x \in Names}],
                        {"national_id", "first_name"}) }

PatientScalarBodies ==
    { Male(body) :
        body \in Bodies([national_id : {Some(n) : n \in NationalIds},
                         first_name : {Some(x) : x \in Names},
                         is_active : {Some(b) : b \in BOOLEAN}],
                        {"national_id", "first_name", "is_active"}) }

(* A body that resubmits the patient's own required fields.                *)
OwnFields(p) ==
    [national_id |-> Some(patients[p].national_id),
     first_name |-> Some(patients[p].first_name),
     gender |-> Some(patients[p].gender)]

WithAddress(body, a) ==
    [f \in DOMAIN body \cup {"address"} |->
        IF f = "address" THEN a ELSE body[f]]

WithContacts(body, list) ==
    [f \in DOMAIN body \cup {"emergency_contacts"} |->
        IF f = "emergency_contacts" THEN Some(list) ELSE body[f]]

NestedAddressValues == {None} \cup {Some(a) : a \in AddressBodies}

(* ------------------------ patients on their own ----------------------- *)
DeactivateStep == \E p \in DOMAIN patients : Deactivate(p)

PatientDeleteStep == \E p \in DOMAIN patients : PatientDelete(p)

NextPatient ==
    \/ \E data \in PatientCreateBodies : PatientCreate(data)
    \/ \E p \in DOMAIN patients, data \in PatientScalarBodies :
           PatientUpdate(p, data, FALSE)
    \/ \E p \in DOMAIN patients, data \in PatientScalarBodies :
           PatientUpdate(p, data, TRUE)
    \/ \E p \in DOMAIN patients : Activate(p)
    \/ DeactivateStep
    \/ PatientDeleteStep

SpecPatient == Init /\ [][NextPatient]_vars

(* --------------------- two clients creating patients ------------------ *)
NextRace ==
    \/ \E c \in Clients, data \in PatientCreateBodies : CreateValidate(c, data)
    \/ \E c \in Clients : CreateInsert(c)
    \/ PatientDeleteStep

SpecRace == Init /\ [][NextRace]_vars

(* ------------------------------ addresses ----------------------------- *)
EnrolStep ==
    \E n \in NationalIds :
        PatientCreate(Male([national_id |-> Some(n), first_name |-> Some("a")]))

NextAddress ==
    \/ PatientCreate(Male([national_id |-> Some(next_id.patient),
                           first_name |-> Some("a")]))
    \/ \E p \in DOMAIN patients, a \in NestedAddressValues :
           PatientUpdate(p, WithAddress(OwnFields(p), a), FALSE)
    \/ \E p \in DOMAIN patients, a \in NestedAddressValues :
           PatientUpdate(p, WithAddress(<< >>, a), TRUE)
    \/ \E data \in AddressBodies : AddressCreate(data)
    \/ \E a \in DOMAIN addresses, data \in AddressBodies :
           AddressUpdate(a, data, FALSE)
    \/ \E a \in DOMAIN addresses, data \in AddressBodies :
           AddressUpdate(a, data, TRUE)

SpecAddress == Init /\ [][NextAddress]_vars

(* ------------------------- discharge summaries ------------------------ *)
SummaryBodies ==
    Bodies([admission_date : {Some(d) : d \in Dates},
            discharge_date : {Some(d) : d \in Dates},
            follow_up_required : {Some(b) : b \in BOOLEAN},
            follow_up_timeframe : {Some(t) : t \in Timeframes}],
           {"admission_date", "discharge_date",
            "follow_up_required", "follow_up_timeframe"})

WithRefs(body, p, h) ==
    [f \in DOMAIN body \cup {"patient", "hospital"} |->
        IF f = "patient" THEN Some(p)
        ELSE IF f = "hospital" THEN Some(h) ELSE body[f]]

(* A length of stay sent by the client.                                    *)
ClientLength == 7

WithLength(body, supplied) ==
    IF supplied
    THEN [f \in DOMAIN body \cup {"length_of_stay_days"} |->
            IF f = "length_of_stay_days" THEN Some(ClientLength) ELSE body[f]]
    ELSE body

AdmitPatientStep ==
    PatientCreate(Male([national_id |-> Some(1), first_name |-> Some("a")]))

RegisterHospitalStep == HospitalCreate([code |-> Some("CHUK")])

SummaryDeleteStep == \E s \in DOMAIN summaries : SummaryDelete(s)

NextDischarge ==
    \/ AdmitPatientStep
    \/ RegisterHospitalStep
    \/ /\ next_id.summary <= MaxEpisodes
       /\ \E body \in SummaryBodies, supplied \in BOOLEAN :
              SummaryCreate(WithLength(WithRefs(body, 1, 1), supplied))
    (* A PUT is sent with both dates; a create may lack them.                 *)
    \/ \E s \in DOMAIN summaries, supplied \in BOOLEAN,
          body \in { b \in SummaryBodies :
                       {"admission_date", "discharge_date"} \subseteq DOMAIN b } :
           SummaryUpdate(s, WithLength(WithRefs(body, 1, 1), supplied), FALSE)
    \/ \E s \in DOMAIN summaries, body \in SummaryBodies, supplied \in BOOLEAN :
           SummaryUpdate(s, WithLength(body, supplied), TRUE)
    \/ SummaryDeleteStep

SpecDischarge == Init /\ [][NextDischarge]_vars

(* --------------------- deletes across the relations ------------------- *)
OneContact == << [full_name |-> "x", is_primary |-> FALSE] >>

SameDayBody ==
    [admission_date |-> Some(0), discharge_date |-> Some(0),
     follow_up_required |-> Some(FALSE), follow_up_timeframe |-> Some("")]

NextCascade ==
    (* Each new patient is enrolled under a national ID of its own.           *)
    \/ PatientCreate(Male([national_id |-> Some(next_id.patient), first_name |-> Some("a")]))
    \/ RegisterHospitalStep
    \/ \E p \in DOMAIN patients :
           \/ PatientUpdate(p, WithAddress(<< >>, Some([village |-> Some("v")])), TRUE)
           \/ /\ next_id.contact <= MaxKin
              /\ PatientUpdate(p, WithContacts(<< >>, OneContact), TRUE)
    \/ /\ next_id.summary <= MaxEpisodes
       /\ \E p \in 1 .. MaxPatients :
              SummaryCreate(WithRefs(SameDayBody, p, 1))
    \/ PatientDeleteStep
    \/ DeactivateStep

SpecCascade == Init /\ [][NextCascade]_vars

(* ------------------- hospitals and their summaries -------------------- *)
NextProtect ==
    \/ AdmitPatientStep
    \/ \E code \in HospitalCodes : HospitalCreate([code |-> Some(code)])
    \/ \E h \in DOMAIN hospitals : HospitalDelete(h)
    \/ /\ next_id.summary <= MaxEpisodes
       /\ \E h \in 1 .. MaxHospitals :
              SummaryCreate(WithRefs(SameDayBody, 1, h))
    \/ \E s \in DOMAIN summaries, h \in 1 .. MaxHospitals :
           SummaryUpdate(s, [hospital |-> Some(h)], TRUE)
    \/ SummaryDeleteStep
    \/ PatientDeleteStep

SpecProtect == Init /\ [][NextProtect]_vars

(* ------------------------- field validators --------------------------- *)
(* A text value is a sequence of characters.  "U+0663" is ARABIC-INDIC     *)
(* DIGIT THREE, a decimal digit (category Nd) outside ASCII; "U+000A" is   *)
(* the line feed.                                                          *)
NationalIdLength == 16

LengthSlack == 1

AsciiDigits == {"0", "1", "2", "3", "4", "5", "6", "7", "8", "9"}

(* \d of a str pattern compiled without re.ASCII.                          *)
IsDecimalDigit(c) == c \in AsciiDigits \cup {"U+0663"}

(* $ of a pattern compiled without re.MULTILINE: position i is the end of  *)
(* the text or sits just before a line feed that ends the text.            *)
AtEnd(s, i) == i = Len(s) + 1 \/ (i = Len(s) /\ s[i] = "U+000A")

(* MaxLengthValidator of a CharField(max_length=n).                        *)
MaxLengthOk(s, n) == Len(s) <= n

(* The validators of Patient.national_id, all of which must pass:          *)
(* RegexValidator(r"^\d{16}$"), i.e. regex.search(value) finds a match,    *)
(* and max_length=16.                                                      *)
NationalIdAccepted(s) ==
    /\ Len(s) >= NationalIdLength
    /\ \A i \in 1 .. NationalIdLength : IsDecimalDigit(s[i])
    /\ AtEnd(s, NationalIdLength + 1)
    /\ MaxLengthOk(s, NationalIdLength)

(* Patient.full_clean on the national_id field of an unsaved patient.      *)
NationalIdClean(value) ==
    /\ response' = IF NationalIdAccepted(value)
                   THEN Rows("full_clean", << [national_id |-> value] >>)
                   ELSE [BadRequest({"national_id"}) EXCEPT
                            !.data = << [national_id |-> value] >>]
    /\ UNCHANGED << store, inflight, users >>

(* The phone fields and their declared max_length.                         *)
PhoneDigits == 9

PatientPhoneMaxLength == 13

HospitalPhoneMaxLength == 15

CountryCode == << "+", "2", "5", "0" >>

PhoneFields ==
    {"Patient.phone_number", "Patient.alt_phone_number",
     "EmergencyContact.phone_number", "EmergencyContact.alt_phone_number",
     "Hospital.phone_number"}

(* The validators of a phone field.  The alternate phones are declared     *)
(* blank=True and take the empty text without running the validators; the  *)
(* others refuse it.  Otherwise RegexValidator(r"^\+250\d{9}$") must find  *)
(* a match and the text must fit the field's max_length.                   *)
PhoneAccepted(field, s) ==
    IF s = << >>
    THEN field \in {"Patient.alt_phone_number", "EmergencyContact.alt_phone_number"}
    ELSE /\ Len(s) >= Len(CountryCode) + PhoneDigits
         /\ SubSeq(s, 1, Len(CountryCode)) = CountryCode
         /\ \A i \in Len(CountryCode) + 1 .. Len(CountryCode) + PhoneDigits :
                IsDecimalDigit(s[i])
         /\ AtEnd(s, Len(CountryCode) + PhoneDigits + 1)
         /\ MaxLengthOk(s, IF field = "Hospital.phone_number"
                           THEN HospitalPhoneMaxLength
                           ELSE PatientPhoneMaxLength)

(* full_clean on one phone field of an unsaved Patient, EmergencyContact   *)
(* or Hospital.                                                            *)
PhoneClean(field, value) ==
    /\ response' = IF PhoneAccepted(field, value)
                   THEN Rows("full_clean", << [field |-> field, value |-> value] >>)
                   ELSE [BadRequest({field}) EXCEPT
                            !.data = << [field |-> field, value |-> value] >>]
    /\ UNCHANGED << store, inflight, users >>

(* Submitted texts: a run of one ASCII digit, and the same with one        *)
(* character replaced by a letter, a non-ASCII digit or a line feed.       *)
DigitRun(n) == [i \in 1 .. n |-> "7"]

OneReplaced(s) ==
    { [s EXCEPT ![k] = c] : k \in 1 .. Len(s), c \in {"A", "U+0663", "U+000A"} }

(* National IDs and phone numbers of every length around the required one; *)
(* the phone numbers start with the country code, and the empty text is    *)
(* submitted too.                                                          *)
NextClean ==
    \/ \E n \in (NationalIdLength - LengthSlack) .. (NationalIdLength + LengthSlack) :
           \E value \in {DigitRun(n)} \cup OneReplaced(DigitRun(n)) :
               NationalIdClean(value)
    \/ \E field \in PhoneFields,
          n \in (PhoneDigits - LengthSlack) .. (PhoneDigits + LengthSlack) :
           \E value \in {<< >>, CountryCode \o DigitRun(n)}
                         \cup OneReplaced(CountryCode \o DigitRun(n)) :
               PhoneClean(field, value)

SpecClean == Init /\ [][NextClean]_vars

(* ------------------- serializer validation on its own ----------------- *)
(* DischargeSummaryCreateSerializer(data=..., partial=...).is_valid(): the *)
(* outcome keeps the submitted data next to the errors; nothing is saved.  *)
SummaryIsValid(data, partial) ==
    /\ response' = [status |-> IF SummaryErrors(data, partial) = {} THEN 200 ELSE 400,
                    errors |-> SummaryErrors(data, partial),
                    detail |-> "",
                    data |-> << [initial_data |-> data, partial |-> partial] >>]
    /\ UNCHANGED << store, inflight, users >>

NextValidate ==
    \/ AdmitPatientStep
    \/ RegisterHospitalStep
    \/ \E body \in SummaryBodies, partial \in BOOLEAN :
           SummaryIsValid(IF partial THEN body ELSE WithRefs(body, 1, 1), partial)
    (* serializer.save() of a request without follow-up.                      *)
    \/ /\ next_id.summary <= MaxEpisodes
       /\ \E a \in Dates, d \in Dates :
              SummaryCreate(WithRefs([admission_date |-> Some(a),
                                      discharge_date |-> Some(d),
                                      follow_up_required |-> Some(FALSE)], 1, 1))

SpecValidate == Init /\ [][NextValidate]_vars

(* ------------------- reading discharge summaries ---------------------- *)
is_critical(row) == row.risk_level = "critical"

is_high_risk(row) == row.risk_level \in {"high", "critical"}

days_since_admission(row, today) == today - row.admission_date

(* timezone.now().date() is the argument today.                            *)
days_since_discharge(row, today) == today - row.discharge_date

(* One row of DischargeSummaryListSerializer, serialized on the date today. *)
SummaryListRow(s, today) ==
    [id |-> s,
     discharge_date |-> summaries[s].discharge_date,
     risk_level |-> summaries[s].risk_level,
     is_high_risk |-> is_high_risk(summaries[s]),
     days_since_discharge |-> days_since_discharge(summaries[s], today)]

Serialized(seq, today) == [i \in DOMAIN seq |-> SummaryListRow(seq[i], today)]

Orderings(S) ==
    { f \in [1 .. Cardinality(S) -> S] :
        \A i \in DOMAIN f, j \in DOMAIN f : i # j => f[i] # f[j] }

(* Meta.ordering = ['-discharge_date', '-created_at']: no row comes after  *)
(* a row it should precede.                                                *)
MetaOrdered(ids) ==
    { f \in Orderings(ids) :
        \A i \in DOMAIN f, j \in DOMAIN f :
            i < j =>
                /\ summaries[f[i]].discharge_date >= summaries[f[j]].discharge_date
                /\ summaries[f[i]].discharge_date = summaries[f[j]].discharge_date =>
                       summaries[f[i]].created_at >= summaries[f[j]].created_at }

(* GET /discharge-summaries/high_risk/: the class queryset filtered with   *)
(* risk_level__in=['high', 'critical']; the model's default ordering       *)
(* applies.                                                                *)
HighRisk(today) ==
    /\ \E seq \in MetaOrdered({ s \in DOMAIN summaries :
                                  summaries[s].risk_level \in {"high", "critical"} }) :
           response' = Rows("high_risk", Serialized(seq, today))
    /\ UNCHANGED << store, inflight, users >>

RiskInputs == RiskLevels \cup {"extreme"}

NextRisk ==
    \/ AdmitPatientStep
    \/ RegisterHospitalStep
    \/ \E level \in RiskInputs :
           SummaryCreate(WithRefs(SameDayBody, 1, 1) @@ ("risk_level" :> Some(level)))
    \/ \E s \in DOMAIN summaries, level \in RiskInputs :
           SummaryUpdate(s, [risk_level |-> Some(level)], TRUE)
    \/ \E today \in Dates : HighRisk(today)

SpecRisk == Init /\ [][NextRisk]_vars

(* --------------------------- Patient.age ------------------------------ *)
(* A calendar date is a record of year, month and day.                     *)
MaxYear == 2

MaxMonth == 2

MaxDay == 2

CalendarDates == [year : 0 .. MaxYear, month : 1 .. MaxMonth, day : 1 .. MaxDay]

(* (a, b) < (c, d) on Python tuples.                                       *)
PairLess(a, b, c, d) == a < c \/ (a = c /\ b < d)

age_reversed(date_of_birth, today) ==
    today.year - date_of_birth.year
    - (IF PairLess(date_of_birth.month, date_of_birth.day, today.month, today.day)
       THEN 1 ELSE 0)

(* date.today() is the argument today; the comparison counts as 1 or 0.    *)
age(date_of_birth, today) ==
    today.year - date_of_birth.year
    - (IF PairLess(today.month, today.day, date_of_birth.month, date_of_birth.day)
       THEN 1 ELSE 0)

(* Reading the age of a patient born on date_of_birth while the clock      *)
(* shows today; the outcome keeps both dates next to the age.              *)
AgeRead(date_of_birth, today) ==
    /\ response' = Rows("age", << [date_of_birth |-> date_of_birth,
                                   today |-> today,
                                   age |-> age(date_of_birth, today)] >>)
    /\ UNCHANGED << store, inflight, users >>

AgeReadStep ==
    \E date_of_birth \in CalendarDates, today \in CalendarDates :
        AgeRead(date_of_birth, today)

NextAge == AgeReadStep

SpecAge == Init /\ [][NextAge]_vars

(* ------------------- listing discharge summaries ---------------------- *)
(* ordering = ['-discharge_date'] on the view set: OrderingFilter applies  *)
(* order_by('-discharge_date'), which replaces the model's default         *)
(* ordering; the store returns rows of one discharge date in any order.    *)
ViewOrdered(ids) ==
    { f \in Orderings(ids) :
        \A i \in DOMAIN f, j \in DOMAIN f :
            i < j => summaries[f[i]].discharge_date >= summaries[f[j]].discharge_date }

(* GET /discharge-summaries/ without an ordering parameter.                *)
SummaryList(today) ==
    /\ \E seq \in ViewOrdered(DOMAIN summaries) :
           response' = Rows("list", Serialized(seq, today))
    /\ UNCHANGED << store, inflight, users >>

(* GET /discharge-summaries/{id}/ on the date today.                       *)
SummaryRetrieve(s, today) ==
    /\ s \in DOMAIN summaries
    /\ response' = Rows("retrieve", << SummaryListRow(s, today) >>)
    /\ UNCHANGED << store, inflight, users >>

NextListing ==
    \/ AdmitPatientStep
    \/ RegisterHospitalStep
    \/ \E a \in Dates, d \in Dates :
           SummaryCreate(WithRefs([admission_date |-> Some(a),
                                   discharge_date |-> Some(d),
                                   follow_up_required |-> Some(FALSE)], 1, 1))
    \/ \E today \in Dates : SummaryList(today)
    \/ \E s \in DOMAIN summaries, today \in Dates : SummaryRetrieve(s, today)

SpecListing == Init /\ [][NextListing]_vars

(* ------------------ one address per patient --------------------------- *)
(* Address.objects.create(patient=p, ...), as the admin and the factories  *)
(* do it.  Address.patient is a OneToOneField: the store keeps patient_id  *)
(* unique among the addresses, and a second address of one patient raises  *)
(* IntegrityError.                                                         *)
AddressObjectsCreate(p, data) ==
    /\ p \in DOMAIN patients
    /\ UNCHANGED << patients, contacts, hospitals, summaries, inflight, users >>
    /\ IF AddressOf(p) # {}
       THEN /\ response' = ServerError
            /\ UNCHANGED << addresses, next_id >>
       ELSE /\ next_id.address <= MaxAddresses
            /\ addresses' = Insert(addresses, next_id.address,
                                   UpdatedAddress(BlankAddress(p), data))
            /\ next_id' = [next_id EXCEPT !.address = @ + 1]
            /\ response' = Ok(201)

(* Nested addresses of a patient update: a village alone, a village with   *)
(* both coordinates, with both coordinates null and with a latitude only.  *)
Relocations ==
    { [village |-> Some(v)] : v \in Villages } \cup
    { [village |-> Some(v), latitude |-> Some(x), longitude |-> Some(x)] :
        v \in Villages, x \in Coordinates } \cup
    { [village |-> Some(v), latitude |-> None, longitude |-> None] :
        v \in Villages } \cup
    { [village |-> Some(v), latitude |-> Some(x)] :
        v \in Villages, x \in Coordinates }

NextOneToOne ==
    \/ EnrolStep
    \/ \E p \in DOMAIN patients, v \in Villages :
           AddressObjectsCreate(p, [village |-> Some(v)])
    \/ \E p \in DOMAIN patients, a \in Relocations :
           PatientUpdate(p, WithAddress(<< >>, Some(a)), TRUE)
    \/ PatientDeleteStep

SpecOneToOne == Init /\ [][NextOneToOne]_vars

(* ------------------------- emergency contacts ------------------------- *)
(* The names the model gives to contacts, in the ascending order of the    *)
(* store's comparison on full_name.                                        *)
ContactNames == << "a", "b", "x" >>

NameRank(name) == CHOOSE i \in DOMAIN ContactNames : ContactNames[i] = name

(* Meta.ordering = ["-is_primary", "full_name"]: no contact comes after a  *)
(* contact it should precede; contacts equal on both keys come in any     *)
(* order.                                                                  *)
ContactsOrderedByName(ids) ==
    { f \in Orderings(ids) :
        \A i \in DOMAIN f, j \in DOMAIN f :
            i < j => NameRank(contacts[f[i]].full_name)
                         <= NameRank(contacts[f[j]].full_name) }

ContactsOrdered(ids) ==
    { f \in Orderings(ids) :
        \A i \in DOMAIN f, j \in DOMAIN f :
            i < j =>
                /\ contacts[f[j]].is_primary => contacts[f[i]].is_primary
                /\ contacts[f[i]].is_primary = contacts[f[j]].is_primary =>
                       NameRank(contacts[f[i]].full_name)
                           <= NameRank(contacts[f[j]].full_name) }

(* GET /emergency-contacts/?patient=p: the rows of the patient in the      *)
(* model's default ordering, each with the fields of the serializer.      *)
ContactList(p) ==
    /\ \E seq \in ContactsOrdered(ContactsOf(p)) :
           response' = Rows("emergency_contacts",
                            [i \in DOMAIN seq |->
                                [id |-> seq[i],
                                 full_name |-> contacts[seq[i]].full_name,
                                 is_primary |-> contacts[seq[i]].is_primary]])
    /\ UNCHANGED << store, inflight, users >>

(* PUT/PATCH /emergency-contacts/{c}/: the patient is not a field of the   *)
(* serializer, so the row keeps its owner; no other row is written.       *)
ContactUpdateSinglePrimary(c, data, partial) ==
    /\ c \in DOMAIN contacts
    /\ UNCHANGED << patients, addresses, hospitals, summaries, next_id,
                    inflight, users >>
    /\ IF ~partial /\ "full_name" \notin DOMAIN data
       THEN /\ response' = BadRequest({"full_name"})
            /\ UNCHANGED contacts
       ELSE /\ contacts' =
                 [d \in DOMAIN contacts |->
                    IF d = c
                    THEN Unwrap(contacts[d], data, {"full_name", "is_primary"})
                    ELSE IF contacts[d].patient = contacts[c].patient
                            /\ TruthyBool(Get(data, "is_primary"))
                         THEN [contacts[d] EXCEPT !.is_primary = FALSE]
                         ELSE contacts[d]]
            /\ response' = Ok(200)

ContactUpdate(c, data, partial) ==
    /\ c \in DOMAIN contacts
    /\ UNCHANGED << patients, addresses, hospitals, summaries, next_id,
                    inflight, users >>
    /\ IF ~partial /\ "full_name" \notin DOMAIN data
       THEN /\ response' = BadRequest({"full_name"})
            /\ UNCHANGED contacts
       ELSE /\ contacts' = [contacts EXCEPT
                              ![c] = Unwrap(@, data, {"full_name", "is_primary"})]
            /\ response' = Ok(200)

ContactBodies ==
    Bodies([full_name : {Some("a"), Some("b")},
            is_primary : {Some(TRUE), Some(FALSE)}],
           {"full_name", "is_primary"})

(* The emergency_contacts lists of a request: is_primary defaults to False. *)
ContactLists ==
    UNION { [1 .. n -> [full_name : {"a", "b"}, is_primary : BOOLEAN]] :
              n \in 0 .. MaxContacts }

NextContacts ==
    \/ PatientCreate(Male([national_id |-> Some(next_id.patient),
                           first_name |-> Some("a")]))
    \/ \E p \in DOMAIN patients, list \in ContactLists :
           PatientUpdate(p, WithContacts(<< >>, list), TRUE)
    \/ \E p \in DOMAIN patients : PatientUpdate(p, << >>, TRUE)
    \/ \E c \in DOMAIN contacts, data \in ContactBodies :
           ContactUpdate(c, data, TRUE)
    \/ \E c \in DOMAIN contacts, data \in ContactBodies :
           ContactUpdate(c, data, FALSE)
    \/ \E p \in DOMAIN patients : ContactList(p)

SpecContacts == Init /\ [][NextContacts]_vars

(* ----------------------- the enrollment timestamp --------------------- *)
(* Every PUT and PATCH of this specification supplies an enrolled_date     *)
(* other than the stored one.                                              *)
NextEnrolled ==
    \/ PatientCreate(Male([national_id |-> Some(next_id.patient),
                           first_name |-> Some("a")]))
    \/ \E p \in DOMAIN patients, name \in Names, d \in 0 .. MaxPatients :
           /\ d # patients[p].enrolled_date
           /\ PatientUpdate(p, [OwnFields(p) EXCEPT !.first_name = Some(name)]
                                  @@ [enrolled_date |-> Some(d)], FALSE)
    \/ \E p \in DOMAIN patients, b \in BOOLEAN, g \in GENDER_CHOICES,
          d \in 0 .. MaxPatients :
           /\ d # patients[p].enrolled_date
           /\ PatientUpdate(p, [is_active |-> Some(b), gender |-> Some(g),
                                enrolled_date |-> Some(d)], TRUE)
    \/ \E p \in DOMAIN patients : Activate(p)
    \/ DeactivateStep
    \/ PatientDeleteStep

SpecEnrolled == Init /\ [][NextEnrolled]_vars

(* ------------------------------- users -------------------------------- *)
(* User.objects.create_user: a further account.                            *)
UserCreate ==
    /\ next_id.user <= MaxUsers
    /\ users' = users \cup {next_id.user}
    /\ next_id' = [next_id EXCEPT !.user = @ + 1]
    /\ UNCHANGED << patients, addresses, contacts, hospitals, summaries,
                    inflight, response >>

(* on_delete=PROTECT from DischargeSummary.created_by to the user.         *)
UserNotProtected(u) == FALSE

UserProtected(u) == \E s \in DOMAIN summaries : summaries[s].created_by = u

(* on_delete=SET_NULL, null=True from Patient.enrolled_by to the user.     *)
EnrolledByKept(u) == patients

EnrolledBySetNull(u) ==
    [p \in DOMAIN patients |->
        IF patients[p].enrolled_by = Some(u)
        THEN [patients[p] EXCEPT !.enrolled_by = None]
        ELSE patients[p]]

(* user.delete(): the collector raises ProtectedError before any write    *)
(* when a protecting row exists; otherwise the references that are        *)
(* nullable are cleared and the account is removed.                       *)
UserDelete(u) ==
    /\ u \in users
    /\ UNCHANGED << addresses, contacts, hospitals, summaries, next_id, inflight >>
    /\ IF UserProtected(u)
       THEN /\ response' = ServerError
            /\ UNCHANGED << patients, users >>
       ELSE /\ patients' = EnrolledBySetNull(u)
            /\ users' = users \ {u}
            /\ response' = Ok(204)

NextUsers ==
    \/ UserCreate
    \/ PatientCreate(Male([national_id |-> Some(next_id.patient),
                           first_name |-> Some("a")]))
    \/ RegisterHospitalStep
    \/ /\ next_id.contact <= MaxKin
       /\ \E p \in DOMAIN patients :
              PatientUpdate(p, WithAddress(WithContacts(<< >>, OneContact),
                                           Some([village |-> Some("v")])), TRUE)
    \/ /\ next_id.summary <= MaxEpisodes
       /\ \E p \in 1 .. MaxPatients : SummaryCreate(WithRefs(SameDayBody, p, 1))
    \/ \E u \in users : UserDelete(u)

SpecUsers == Init /\ [][NextUsers]_vars

(* ------------------------------ statistics ---------------------------- *)
(* GET /patients/stats/: counts over all stored patients.                  *)
stats ==
    /\ response' =
         Rows("stats",
              << [total_patients |-> Cardinality(DOMAIN patients),
                  active_patients |->
                      Cardinality({ p \in DOMAIN patients : patients[p].is_active }),
                  inactive_patients |->
                      Cardinality(DOMAIN patients)
                        - Cardinality({ p \in DOMAIN patients : patients[p].is_active }),
                  by_gender |->
                      [gender \in GENDER_CHOICES |->
                          Cardinality({ p \in DOMAIN patients :
                                          patients[p].gender = gender })]] >>)
    /\ UNCHANGED << store, inflight, users >>

NextStats ==
    \/ \E gender \in GENDER_CHOICES \cup {"X"} :
           PatientCreate([national_id |-> Some(next_id.patient),
                          first_name |-> Some("a"),
                          gender |-> Some(gender)])
    \/ \E p \in DOMAIN patients, gender \in GENDER_CHOICES \cup {"X"} :
           PatientUpdate(p, [gender |-> Some(gender)], TRUE)
    \/ \E p \in DOMAIN patients : Activate(p)
    \/ DeactivateStep
    \/ PatientDeleteStep
    \/ stats

SpecStats == Init /\ [][NextStats]_vars

(* -------------------- replacing the contacts of a patient ------------- *)
ContactSubmissions ==
    { << >>,
      << [full_name |-> "a", is_primary |-> FALSE] >>,
      << [full_name |-> "b", is_primary |-> TRUE] >>,
      << [full_name |-> "b", is_primary |-> FALSE],
         [full_name |-> "a", is_primary |-> TRUE] >>,
      << [full_name |-> "a", is_primary |-> TRUE],
         [full_name |-> "a", is_primary |-> TRUE] >> }

NextReplace ==
    \/ PatientCreate(Male([national_id |-> Some(next_id.patient),
                           first_name |-> Some("a")]))
    \/ \E p \in DOMAIN patients, list \in ContactSubmissions :
           PatientUpdate(p, WithContacts(OwnFields(p), list), FALSE)
    \/ \E p \in DOMAIN patients, list \in ContactSubmissions :
           PatientUpdate(p, WithContacts(<< >>, list), TRUE)
    \/ \E p \in DOMAIN patients : PatientUpdate(p, OwnFields(p), FALSE)
    \/ \E p \in DOMAIN patients : PatientUpdate(p, << >>, TRUE)
    \/ DeactivateStep
    \/ PatientDeleteStep

SpecReplace == Init /\ [][NextReplace]_vars

(* ============================== claims ================================ *)

(* C1: in every state reachable by patient create, PUT, PATCH, activate,   *)
(* deactivate and delete, no two stored patients have the same national    *)
(* identifier.                                                             *)
C1_NationalIdsDistinct ==
    \A p \in DOMAIN patients, q \in DOMAIN patients :
        p # q => patients[p].national_id # patients[q].national_id

(* Two patients are stored and a request that would have duplicated a      *)
(* national identifier has just been turned down.                          *)
C1_Witness ==
    /\ Cardinality(DOMAIN patients) = 2
    /\ response = BadRequest({"national_id"})

(* C2: every discharge-summary create, PUT or PATCH that passes validation *)
(* leaves the stored summary with discharge_date >= admission_date, also   *)
(* when a PATCH supplies only one of the two dates.                        *)
C2_DischargeNotBeforeAdmission ==
    \A s \in DOMAIN summaries :
        summaries[s].discharge_date >= summaries[s].admission_date

(* A request passed validation and was then refused by the store, with a   *)
(* summary in place: the PATCH that moves one date past the stored other.  *)
C2_Witness ==
    /\ response = ServerError
    /\ summaries # << >>

(* C3: every stored discharge summary with follow_up_required = true has a *)
(* non-empty follow_up_timeframe, also after a create that omits           *)
(* follow_up_required and after a PATCH that supplies one of the fields.   *)
C3_FollowUpHasTimeframe ==
    \A s \in DOMAIN summaries :
        summaries[s].follow_up_required => summaries[s].follow_up_timeframe # ""

(* C4: in every reachable state each stored summary's length_of_stay_days  *)
(* equals discharge_date minus admission_date, whatever the request sent.  *)
C4_LengthOfStayIsDateDifference ==
    \A s \in DOMAIN summaries :
        summaries[s].length_of_stay_days =
            summaries[s].discharge_date - summaries[s].admission_date

(* An update went through and left a stay of at least one day.             *)
C4_Witness ==
    /\ response = Ok(200)
    /\ \E s \in DOMAIN summaries : summaries[s].length_of_stay_days > 0

(* C5: every stored address has latitude and longitude both present or     *)
(* both absent.                                                            *)
C5_CoordinatesPaired ==
    \A a \in DOMAIN addresses :
        (addresses[a].latitude = None) <=> (addresses[a].longitude = None)

(* C6: of two interleaved create requests with the same national ID that   *)
(* both passed the existence check, at most one ends as a stored patient.  *)
C6_AtMostOneStoredPerNationalId ==
    \A n \in NationalIds : Cardinality(PatientsWithNationalId(n)) <= 1

(* The loser of the race: its insert was refused by the store while the    *)
(* winner's patient is stored.                                             *)
C6_Witness ==
    /\ response = ServerError
    /\ patients # << >>

(* C7: a patient create whose national ID is already stored is rejected    *)
(* with a validation failure on national_id and leaves the stored patients *)
(* unchanged.                                                              *)
C7_DuplicateCreateRejected ==
    [][\A data \in PatientCreateBodies :
          ( /\ "national_id" \in DOMAIN data
            /\ PatientsWithNationalId(data["national_id"][1]) # {}
            /\ PatientCreate(data) )
          => ( /\ response'.status = 400
               /\ "national_id" \in response'.errors
               /\ patients' = patients )]_vars

(* Only one patient was ever created and a national_id failure has just    *)
(* been reported: it can only come from a second create.                   *)
C7_Witness ==
    /\ next_id.patient = 2
    /\ Cardinality(DOMAIN patients) = 1
    /\ response = BadRequest({"national_id"})

(* C8: deleting a patient removes its address, contacts and discharge      *)
(* summaries and nothing of any other patient; every stored address,       *)
(* contact and summary references a stored patient.                        *)
C8_OwnedRowsReferenceStoredPatient ==
    /\ \A a \in DOMAIN addresses : addresses[a].patient \in DOMAIN patients
    /\ \A c \in DOMAIN contacts : contacts[c].patient \in DOMAIN patients
    /\ \A s \in DOMAIN summaries : summaries[s].patient \in DOMAIN patients

C8_PatientDeleteCascades ==
    /\ []C8_OwnedRowsReferenceStoredPatient
    /\ [][\A p \in DOMAIN patients :
            PatientDelete(p) =>
              /\ DOMAIN patients' = DOMAIN patients \ {p}
              /\ \A a \in DOMAIN addresses :
                    IF addresses[a].patient = p THEN a \notin DOMAIN addresses'
                    ELSE a \in DOMAIN addresses' /\ addresses'[a] = addresses[a]
              /\ \A c \in DOMAIN contacts :
                    IF contacts[c].patient = p THEN c \notin DOMAIN contacts'
                    ELSE c \in DOMAIN contacts' /\ contacts'[c] = contacts[c]
              /\ \A s \in DOMAIN summaries :
                    IF summaries[s].patient = p THEN s \notin DOMAIN summaries'
                    ELSE s \in DOMAIN summaries' /\ summaries'[s] = summaries[s]
              /\ \A q \in DOMAIN patients \ {p} : patients'[q] = patients[q]]_vars

(* One of two patients has been deleted and took a summary and an address  *)
(* with it, while the other patient still has its contact.                 *)
C8_Witness ==
    /\ response = Ok(204)
    /\ next_id.patient = 3
    /\ Cardinality(DOMAIN patients) = 1
    /\ summaries = << >> /\ next_id.summary = 2
    /\ addresses = << >> /\ next_id.address = 2
    /\ contacts # << >>

(* C9: deleting a hospital that a stored discharge summary references      *)
(* fails and changes neither the hospital nor any summary; every stored    *)
(* summary references a stored hospital.                                   *)
C9_ProtectedHospitalStays ==
    /\ [](\A s \in DOMAIN summaries : summaries[s].hospital \in DOMAIN hospitals)
    /\ [][\A h \in DOMAIN hospitals :
            (HospitalDelete(h) /\ \E s \in DOMAIN summaries : summaries[s].hospital = h)
            => /\ response'.status = 500
               /\ hospitals' = hospitals
               /\ summaries' = summaries]_vars

C9_Witness ==
    /\ response = ServerError
    /\ summaries # << >>
    /\ hospitals # << >>

C11_AcceptsExactlySixteenAsciiDigits ==
    (response.data # << >> /\ "national_id" \in DOMAIN response.data[1]) =>
        LET value == response.data[1].national_id
        IN  (response.status = 200) <=>
                /\ Len(value) = NationalIdLength
                /\ \A i \in 1 .. Len(value) : value[i] \in AsciiDigits

(* C12: the same phone acceptance rule applies to Patient phone, Patient   *)
(* alternate phone, EmergencyContact phone and alternate phone, and        *)
(* Hospital phone: a non-empty value is accepted by one of these fields if *)
(* and only if it is accepted by all of them, namely if and only if it is  *)
(* the literal +250 followed by exactly 9 decimal digits (13 characters).  *)
C12_PhoneRuleUniform ==
    (/\ response.data # << >>
     /\ "value" \in DOMAIN response.data[1]
     /\ response.data[1].value # << >>) =>
        LET value == response.data[1].value
        IN  /\ \A field \in PhoneFields :
                   PhoneAccepted(field, value) <=> response.status = 200
            /\ (response.status = 200) <=>
                   /\ Len(value) = Len(CountryCode) + PhoneDigits
                   /\ SubSeq(value, 1, Len(CountryCode)) = CountryCode
                   /\ \A i \in Len(CountryCode) + 1 .. Len(value) :
                          IsDecimalDigit(value[i])

(* C13: for an address create request, coordinate validation fails if and  *)
(* only if exactly one of latitude and longitude is present: latitude only *)
(* and longitude only are rejected, both present and both absent pass.     *)
C13_CoordinateValidationOnCreate ==
    [][\A data \in { body \in AddressBodies : AddressRequired \subseteq DOMAIN body } :
          AddressCreate(data) =>
              (("non_field_errors" \in response'.errors) <=>
                  ((Get(data, "latitude") # None) # (Get(data, "longitude") # None)))]_vars

(* An address create request has just been rejected for its coordinates    *)
(* while no address is stored.                                             *)
C13_Witness ==
    /\ addresses = << >>
    /\ response = BadRequest({"non_field_errors"})

(* C14: for a discharge-summary request carrying both dates (and passing   *)
(* the field checks), date validation fails if and only if discharge_date  *)
(* < admission_date; equal dates pass, and the length of stay stored for a *)
(* same-day discharge is 0.                                                *)
C14_DateValidation ==
    /\ (response.data # << >> /\ "initial_data" \in DOMAIN response.data[1]) =>
           LET data == response.data[1].initial_data
               partial == response.data[1].partial
           IN  (/\ {"admission_date", "discharge_date"} \subseteq DOMAIN data
                /\ SummaryFieldErrors(data, partial) = {}) =>
                   (("discharge_date" \in response.errors) <=>
                        data.discharge_date[1] < data.admission_date[1])
    /\ \A s \in DOMAIN summaries :
           summaries[s].discharge_date = summaries[s].admission_date =>
               summaries[s].length_of_stay_days = 0

(* A same-day discharge is stored and a request with the same two equal    *)
(* dates has just passed validation.                                       *)
C14_Witness ==
    /\ \E s \in DOMAIN summaries :
           summaries[s].admission_date = summaries[s].discharge_date
    /\ response.status = 200
    /\ response.data # << >>
    /\ {"admission_date", "discharge_date"} \subseteq DOMAIN response.data[1].initial_data
    /\ response.data[1].initial_data.admission_date =
           response.data[1].initial_data.discharge_date

(* C15: for a discharge-summary request that carries follow_up_required    *)
(* and reaches the follow-up check (field checks passed, dates in order),  *)
(* follow-up validation fails if and only if follow_up_required is true    *)
(* and follow_up_timeframe is empty or absent: (true, empty) is rejected,  *)
(* (true, "1 week") and (false, empty) pass.                               *)
C15_FollowUpValidation ==
    (response.data # << >> /\ "initial_data" \in DOMAIN response.data[1]) =>
        LET data == response.data[1].initial_data
            partial == response.data[1].partial
        IN  (/\ "follow_up_required" \in DOMAIN data
             /\ data.follow_up_required # None
             /\ SummaryFieldErrors(data, partial) = {}
             /\ ~DateOrderFails(data)) =>
                (("follow_up_timeframe" \in response.errors) <=>
                     /\ data.follow_up_required[1] = TRUE
                     /\ Get(data, "follow_up_timeframe") \in {None, Some("")})

(* A request with follow_up_required true and an empty timeframe has just  *)
(* been rejected for it.                                                   *)
C15_Witness ==
    /\ response.errors = {"follow_up_timeframe"}
    /\ response.data # << >>
    /\ Get(response.data[1].initial_data, "follow_up_timeframe") = Some("")

(* C16: for every discharge summary, is_high_risk is true if and only if   *)
(* its risk level is high or critical (false for low and medium), and the  *)
(* high_risk listing returns exactly the stored summaries for which        *)
(* is_high_risk is true.                                                   *)
C16_HighRiskListing ==
    /\ \A s \in DOMAIN summaries :
           /\ summaries[s].risk_level \in {"high", "critical"} =>
                  is_high_risk(summaries[s])
           /\ summaries[s].risk_level \in {"low", "medium"} =>
                  ~is_high_risk(summaries[s])
    /\ response.detail = "high_risk" =>
           /\ { response.data[i].id : i \in DOMAIN response.data } =
                  { s \in DOMAIN summaries : is_high_risk(summaries[s]) }
           /\ Len(response.data) =
                  Cardinality({ s \in DOMAIN summaries : is_high_risk(summaries[s]) })
           /\ \A i \in DOMAIN response.data : response.data[i].is_high_risk

(* The listing has just returned one of two stored summaries: one is at    *)
(* high or critical risk, the other is not.                                *)
C16_Witness ==
    /\ response.detail = "high_risk"
    /\ Len(response.data) = 1
    /\ Cardinality(DOMAIN summaries) = 2

(* C17: for every birth date and every reference date today, the computed  *)
(* age (year difference, less one when today's (month, day) precedes the   *)
(* birth (month, day)) is exactly 0 when the birth date is today, is never  *)
(* negative when the birth date is on or before today, and is never        *)
(* positive when the birth date is after today; no clamping is applied.    *)
C17_AgeSign ==
    response.detail = "age" =>
        LET born == response.data[1].date_of_birth
            today == response.data[1].today
            years == response.data[1].age
            onOrBefore ==
                \/ born.year < today.year
                \/ /\ born.year = today.year
                   /\ \/ born.month < today.month
                      \/ born.month = today.month /\ born.day <= today.day
        IN  /\ born = today => years = 0
            /\ onOrBefore => years >= 0
            /\ ~onOrBefore => years <= 0

(* An age has been read for a birth date after today, and it is negative.  *)
C17_Witness ==
    /\ response.detail = "age"
    /\ response.data[1].date_of_birth.year = response.data[1].today.year
    /\ response.data[1].date_of_birth.month > response.data[1].today.month
    /\ response.data[1].age < 0

(* C18: days_since_discharge read at clock date t equals t minus the       *)
(* stored discharge_date in whole days (negative when the discharge date   *)
(* is after t); it is recomputed on every read, so two reads of an         *)
(* unchanged summary at dates t1 <= t2 differ by exactly t2 - t1, and a    *)
(* read never changes any stored field.                                    *)
C18_DaysSinceDischarge ==
    /\ [](\A s \in DOMAIN summaries, t1 \in Dates, t2 \in Dates :
             t1 <= t2 =>
                 days_since_discharge(summaries[s], t2)
                 - days_since_discharge(summaries[s], t1) = t2 - t1)
    /\ [][\A s \in DOMAIN summaries, t \in Dates :
             SummaryRetrieve(s, t) =>
                 /\ response'.data[1].days_since_discharge =
                        t - summaries[s].discharge_date
                 /\ UNCHANGED store]_vars

(* A summary discharged after it was admitted has just been read on a date *)
(* before its discharge date: the value read is negative.                  *)
C18_Witness ==
    /\ response.detail = "retrieve"
    /\ response.data[1].days_since_discharge < 0
    /\ \E s \in DOMAIN summaries :
           summaries[s].discharge_date > summaries[s].admission_date

(* C20: the discharge-summary list endpoint, called with no ordering       *)
(* parameter, returns summaries sorted by discharge date descending, with  *)
(* summaries sharing a discharge date ordered by creation time descending. *)
C20_ListOrderedByDischargeThenCreation ==
    response.detail = "list" =>
        \A i \in DOMAIN response.data, j \in DOMAIN response.data :
            i < j =>
                LET first == summaries[response.data[i].id]
                    second == summaries[response.data[j].id]
                IN  \/ first.discharge_date > second.discharge_date
                    \/ /\ first.discharge_date = second.discharge_date
                       /\ first.created_at > second.created_at

(* C19: in every reachable state each patient owns at most one address:    *)
(* creating a second address for a patient that already has one fails and  *)
(* leaves the existing address unchanged, and a patient update carrying a  *)
(* nested address modifies the existing address instead of adding another. *)
C19_AtMostOneAddress ==
    /\ [](\A p \in DOMAIN patients : Cardinality(AddressOf(p)) <= 1)
    /\ [][\A p \in DOMAIN patients :
             AddressOf(p) # {} =>
                 /\ \A v \in Villages :
                        AddressObjectsCreate(p, [village |-> Some(v)]) =>
                            /\ response' = ServerError
                            /\ addresses' = addresses
                 /\ \A a \in Relocations :
                        (/\ PatientUpdate(p, WithAddress(<< >>, Some(a)), TRUE)
                         /\ response'.status = 200) =>
                            /\ DOMAIN addresses' = DOMAIN addresses
                            /\ \A x \in DOMAIN addresses :
                                   addresses'[x] =
                                       IF x \in AddressOf(p)
                                       THEN UpdatedAddress(addresses[x], a)
                                       ELSE addresses[x]]_vars

(* A patient has an address with coordinates (set by an update of the      *)
(* address created first) and a second create for that patient has just    *)
(* been refused.                                                           *)
C19_Witness ==
    /\ response = ServerError
    /\ \E a \in DOMAIN addresses : addresses[a].latitude # None

(* C21: every listing of a patient's emergency contacts shows each          *)
(* primary-flagged contact before each non-primary one and, among contacts *)
(* with the same flag, the names in ascending order, whatever the order in *)
(* which the contacts were created or updated.                             *)
C21_ContactsPrimaryFirstThenByName ==
    response.detail = "emergency_contacts" =>
        \A i \in DOMAIN response.data, j \in DOMAIN response.data :
            i < j =>
                /\ response.data[j].is_primary => response.data[i].is_primary
                /\ response.data[i].is_primary = response.data[j].is_primary =>
                       NameRank(response.data[i].full_name)
                           <= NameRank(response.data[j].full_name)

(* A listing that shows a later-created primary contact named "b" before   *)
(* an earlier non-primary contact named "a".                               *)
C21_Witness ==
    /\ response.detail = "emergency_contacts"
    /\ Len(response.data) = 2
    /\ response.data[1].id > response.data[2].id
    /\ response.data[1].is_primary /\ ~response.data[2].is_primary
    /\ response.data[1].full_name = "b" /\ response.data[2].full_name = "a"

(* C22: the enrollment timestamp of a patient is the one set at creation:  *)
(* no PUT, PATCH, activate or deactivate changes the enrolled_date of a    *)
(* stored patient, even when the request body supplies another value, and *)
(* a new patient gets the timestamp of its insert.                         *)
C22_EnrolledDateSetOnce ==
    [][ /\ \A p \in DOMAIN patients \cap DOMAIN patients' :
              patients'[p].enrolled_date = patients[p].enrolled_date
        /\ \A p \in DOMAIN patients' \ DOMAIN patients :
              patients'[p].enrolled_date = next_id.patient ]_vars

(* A patient renamed by a PUT and deactivated, after another patient was   *)
(* enrolled, still carrying the timestamp of its own insert.               *)
C22_Witness ==
    /\ 1 \in DOMAIN patients /\ 2 \in DOMAIN patients
    /\ patients[1].first_name = "b"
    /\ ~patients[1].is_active
    /\ patients[1].enrolled_date = 1
    /\ response.status = 200

(* C23: deleting a user who created a stored discharge summary fails and   *)
(* changes nothing: the user, every discharge summary and every patient    *)
(* (with its enrolled_by reference) stay as they were.                     *)
C23_CreatorDeleteRefused ==
    [][ \A u \in users :
          ( /\ \E s \in DOMAIN summaries : summaries[s].created_by = u
            /\ UserDelete(u) )
          => /\ response'.status = 500
             /\ u \in users'
             /\ UNCHANGED << store, users >> ]_vars

(* A refused delete of a user who created a summary and enrolled a patient. *)
C23_Witness ==
    /\ response.status = 500
    /\ \E u \in users :
          /\ \E s \in DOMAIN summaries : summaries[s].created_by = u
          /\ \E p \in DOMAIN patients : patients[p].enrolled_by = Some(u)

(* C24: deleting a user who created no discharge summary succeeds, clears  *)
(* enrolled_by on exactly the patients that user enrolled and changes no   *)
(* other attribute of any patient and no address, contact, summary or     *)
(* hospital.                                                               *)
C24_EnrollerDeleteSetsNull ==
    [][ \A u \in users :
          ( /\ ~ \E s \in DOMAIN summaries : summaries[s].created_by = u
            /\ UserDelete(u) )
          => /\ response'.status = 204
             /\ users' = users \ {u}
             /\ DOMAIN patients' = DOMAIN patients
             /\ \A p \in DOMAIN patients :
                   patients'[p] =
                       IF patients[p].enrolled_by = Some(u)
                       THEN [patients[p] EXCEPT !.enrolled_by = None]
                       ELSE patients[p]
             /\ UNCHANGED << addresses, contacts, summaries, hospitals >> ]_vars

(* A patient whose enrolling user was deleted: stored with its address,    *)
(* its contact and its discharge summary, enrolled_by null.                *)
C24_Witness ==
    /\ response.status = 204
    /\ \E p \in DOMAIN patients :
          /\ patients[p].enrolled_by = None
          /\ AddressOf(p) # {}
          /\ ContactsOf(p) # {}
          /\ SummariesOfPatient(p) # {}

(* C25: two emergency contacts of one patient can both be flagged primary: *)
(* flagging a contact primary is accepted and writes no other contact, and *)
(* a contact list with two primary entries is stored with both flags set.  *)
C25_SecondPrimaryAccepted ==
    [][ /\ \A c \in DOMAIN contacts :
              ContactUpdate(c, [is_primary |-> Some(TRUE)], TRUE)
              => /\ response'.status = 200
                 /\ contacts'[c].is_primary
                 /\ \A d \in DOMAIN contacts \ {c} : contacts'[d] = contacts[d]
        /\ \A p \in DOMAIN patients :
              PatientUpdate(p, WithContacts(<< >>,
                                 << [full_name |-> "a", is_primary |-> TRUE],
                                    [full_name |-> "b", is_primary |-> TRUE] >>),
                            TRUE)
              => /\ response'.status = 200
                 /\ Cardinality({ c \in DOMAIN contacts' :
                                    /\ contacts'[c].patient = p
                                    /\ contacts'[c].is_primary }) = 2 ]_vars

(* Two stored contacts of one patient, of the same name, both primary.     *)
C25_Witness ==
    /\ response.status = 200
    /\ \E c \in DOMAIN contacts, d \in DOMAIN contacts :
          /\ c # d
          /\ contacts[c].patient = contacts[d].patient
          /\ contacts[c].is_primary /\ contacts[d].is_primary
          /\ contacts[c].full_name = contacts[d].full_name

(* C26: the uniqueness check of a patient update leaves out the patient    *)
(* being updated and nothing else: a PUT that resubmits the patient's own  *)
(* fields is accepted, and a PUT or PATCH that sets the national ID to the *)
(* one of another stored patient is rejected with an error on national_id  *)
(* and writes nothing.                                                     *)
C26_UpdateUniquenessExcludesSelf ==
    [][ \A p \in DOMAIN patients :
          /\ \/ response'.status = 200 /\ patients' = patients
             \/ ~PatientUpdate(p, OwnFields(p), FALSE)
          /\ \/ /\ response'.status = 400
                /\ "national_id" \in response'.errors
                /\ UNCHANGED store
             \/ \A q \in DOMAIN patients \ {p} :
                   /\ ~PatientUpdate(p, [OwnFields(p) EXCEPT
                                           !.national_id = Some(patients[q].national_id)],
                                     FALSE)
                   /\ ~PatientUpdate(p, Male([national_id |->
                                                Some(patients[q].national_id)]),
                                     TRUE) ]_vars

(* Two stored patients and an update refused for its national ID: no       *)
(* create is possible once the last patient id is used, so the refusal    *)
(* answers an update.                                                      *)
C26_Witness ==
    /\ next_id.patient > MaxPatients
    /\ Cardinality(DOMAIN patients) = 2
    /\ response.status = 400
    /\ response.errors = {"national_id"}

(* C27: a patient update that carries an emergency_contacts list leaves    *)
(* the patient with exactly the submitted contacts (none for an empty     *)
(* list), an update without the list leaves the patient's contacts as     *)
(* they were, and neither changes a contact of another patient.           *)
C27_ContactListReplaced ==
    [][ \A p \in DOMAIN patients, partial \in BOOLEAN :
          LET body == IF partial THEN << >> ELSE OwnFields(p)
          IN  /\ PatientUpdate(p, body, partial) => contacts' = contacts
              /\ \A list \in ContactSubmissions :
                    PatientUpdate(p, WithContacts(body, list), partial)
                    => /\ { c \in DOMAIN contacts' : contacts'[c].patient = p }
                              = { next_id.contact + i - 1 : i \in 1 .. Len(list) }
                       /\ \A i \in 1 .. Len(list) :
                             contacts'[next_id.contact + i - 1] =
                                 [patient |-> p,
                                  full_name |-> list[i].full_name,
                                  is_primary |-> list[i].is_primary]
                       /\ \A c \in DOMAIN contacts \cup DOMAIN contacts' :
                             (c \in DOMAIN contacts /\ contacts[c].patient # p)
                             \/ (c \in DOMAIN contacts' /\ contacts'[c].patient # p)
                             => /\ c \in DOMAIN contacts \cap DOMAIN contacts'
                                /\ contacts'[c] = contacts[c] ]_vars

(* The only patient's first contact was replaced: the stored contact is    *)
(* the second one ever created.                                            *)
C27_Witness ==
    /\ DOMAIN patients = {1}
    /\ DOMAIN contacts = {2}
    /\ contacts[2].patient = 1
    /\ response.status = 200

(* C28: a discharge-summary request that passes the field checks and       *)
(* breaks both the date rule (discharge before admission) and the          *)
(* follow-up rule (follow-up required, timeframe empty or absent) gets     *)
(* both failures reported, one keyed discharge_date and one keyed          *)
(* follow_up_timeframe, and no stored summary breaks both rules.           *)
C28_BothFailuresReported ==
    /\ (response.data # << >> /\ "initial_data" \in DOMAIN response.data[1]) =>
           LET data == response.data[1].initial_data
               partial == response.data[1].partial
           IN  (/\ SummaryFieldErrors(data, partial) = {}
                /\ {"admission_date", "discharge_date"} \subseteq DOMAIN data
                /\ data.discharge_date[1] < data.admission_date[1]
                /\ TruthyBool(Get(data, "follow_up_required"))
                /\ ~TruthyStr(Get(data, "follow_up_timeframe")))
               => {"discharge_date", "follow_up_timeframe"} \subseteq response.errors
    /\ \A s \in DOMAIN summaries :
           ~ /\ summaries[s].discharge_date < summaries[s].admission_date
             /\ summaries[s].follow_up_required
             /\ summaries[s].follow_up_timeframe = ""

(* C29: activate and deactivate are possible on every stored patient       *)
(* whatever its is_active, each answers 200, is_active afterwards is true  *)
(* after activate and false after deactivate, and repeating the operation  *)
(* changes no patient.                                                     *)
C29_ActivationFollowsLastOperation ==
    /\ [](\A p \in DOMAIN patients : ENABLED Activate(p) /\ ENABLED Deactivate(p))
    /\ [][ \A p \in DOMAIN patients :
             /\ Activate(p)
                => /\ response'.status = 200
                   /\ patients'[p].is_active
                   /\ patients[p].is_active => patients' = patients
             /\ Deactivate(p)
                => /\ response'.status = 200
                   /\ ~patients'[p].is_active
                   /\ ~patients[p].is_active => patients' = patients ]_vars

(* The only stored patient, enrolled active, is inactive right after a     *)
(* deactivate.                                                             *)
C29_Witness ==
    /\ DOMAIN patients = {1}
    /\ ~patients[1].is_active
    /\ response.detail = "Patient deactivated successfully"

(* C30: the stats response reports total_patients = the number of stored   *)
(* patients, active_patients = the number of them with is_active true,     *)
(* inactive_patients = total_patients - active_patients >= 0, and counts   *)
(* for M, F and O that add up to total_patients.                           *)
C30_StatsCounts ==
    response.detail = "stats" =>
        LET body == response.data[1]
        IN  /\ body.total_patients = Cardinality(DOMAIN patients)
            /\ body.active_patients =
                   Cardinality({ p \in DOMAIN patients : patients[p].is_active })
            /\ body.inactive_patients = body.total_patients - body.active_patients
            /\ body.inactive_patients >= 0
            /\ DOMAIN body.by_gender = {"M", "F", "O"}
            /\ body.by_gender["M"] + body.by_gender["F"] + body.by_gender["O"]
                   = body.total_patients

(* Statistics over two patients, one inactive, of two genders.             *)
C30_Witness ==
    /\ response.detail = "stats"
    /\ response.data[1].total_patients = 2
    /\ response.data[1].active_patients = 1
    /\ response.data[1].inactive_patients = 1
    /\ response.data[1].by_gender["F"] = 1
    /\ response.data[1].by_gender["O"] = 1

====
